---- MODULE Spec2Model ----
(***************************************************************************)
(* Model of the ORATS end-of-day ingest job (src/job_orats_eod.py) and its *)
(* persistence helper (src/db.py).                                         *)
(*                                                                         *)
(* Conventions.                                                            *)
(*  - A Python value that may be None is a sequence of length <= 1:        *)
(*    Null == << >> is None and <<x>> is the value x.                      *)
(*  - A date is its proleptic Gregorian ordinal (datetime.date.toordinal), *)
(*    so 738890 is 2024-01-05, a Friday, and date.weekday() is             *)
(*    (ordinal + 6) % 7.                                                   *)
(*  - Rates, yields and gamma are integers in units of 1/1000.             *)
(*  - A JSON field the provider sends is null, a number <<n>> or, for the  *)
(*    strike, a text that is not a number: the pair <<"text", s>>.         *)
(*  - exp() has no integer counterpart: a non-null discounted level is the *)
(*    pair [strike, expo] that stands for                                  *)
(*    strike * exp(expo / (1000 * 252)); math.exp raises OverflowError     *)
(*    above log(max double) = 709.78..., that is from expo = 178865244 on. *)
(***************************************************************************)
EXTENDS Integers, Sequences, FiniteSets, TLC

VARIABLES
    pc,               \* position of the run inside main()
    outcome,          \* how the run ended ("running" while it has not)
    exit_code,        \* process exit status, Null while running
    token,            \* the token after line 139
    args,             \* parsed command line: store_date, api_date
    la_today,         \* the clock reading of line 148, Null until read
    max_lookback,     \* MAX_LOOKBACK_DAYS of this process (environment)
    provider,         \* what the market-data provider answers during the run
    store_trade_date, \* the stored date, Null until decided
    api_trade_date,   \* the source date, Null until decided
    day,              \* loop variable of find_prev_bday_with_data_from
    iter,             \* iterations of that loop completed
    nprobe,           \* requests sent to the strikes endpoint in this run
    m_spx, m_spy,     \* monies maps
    rf30,             \* scalar fallback rate
    data,             \* strike records after the DTE filter
    rows,             \* rows built by step 5
    ins,              \* rows already sent by executemany
    tx,               \* the open transaction's view of the table, Null if none
    committed,        \* the committed content of orats_oi_gamma
    issued,           \* SQL statements sent in this run, in order
    dbAtStart,        \* committed content when the run started
    prev,             \* the immediately preceding run, if it committed
    runs              \* runs started so far

vars == <<pc, outcome, exit_code, token, args, la_today, max_lookback,
          provider, store_trade_date, api_trade_date, day, iter, nprobe,
          m_spx, m_spy, rf30, data, rows, ins, tx, committed, issued,
          dbAtStart, prev, runs>>

----------------------------------------------------------------------------
(* Bounds of the exploration *)

FirstDay == 738890
LastDay == 738893
MaxLookback == 3
MaxRecords == 2
MaxRuns == 2

(* Program constants *)

TICKER == "SPX"
DTE_MAX == 400
CONTRACT_MULTIPLIER == 100

Null == << >>
Some(x) == <<x>>

EmptyMap == << >>

Days == FirstDay .. LastDay

----------------------------------------------------------------------------
(* Business-day calendar *)

Weekday(d) == (d + 6) % 7

_is_bday(d) == Weekday(d) < 5

RECURSIVE _next_bday(_)
_next_bday(d) == IF _is_bday(d) THEN d ELSE _next_bday(d + 1)

RECURSIVE _prev_bday(_)
_prev_bday(d) == IF _is_bday(d) THEN d ELSE _prev_bday(d - 1)

----------------------------------------------------------------------------
(* Python truthiness of the values the job tests *)

TruthyStr(x) == x # Null /\ x # Some("")

TruthyNum(x) == x # Null /\ x # Some(0)

(* `y in (None, 0, 0.0)` *)
NoneOrZero(y) == y = Null \/ y = Some(0)

(* dt.date.fromisoformat inside try/except, on the strings the model uses *)
parse_iso_date(s) ==
    CASE s = "2024-01-19" -> Some(738904)
      [] s = "2025-06-20" -> Some(739422)
      [] s = "9999-12-31" -> Some(3652059)
      [] OTHER -> Null

----------------------------------------------------------------------------
(* Market-data client *)

(* What the strikes endpoint holds for a date: the provider's book, stamped
   with the requested ticker and date. *)
StrikesData(p, date) ==
    IF date \in p.dataDays
    THEN [k \in 1 .. Len(p.book) |->
            [ticker |-> Some(TICKER), tradeDate |-> Some(date),
             expirDate |-> p.book[k].expirDate, dte |-> p.book[k].dte,
             strike |-> p.book[k].strike,
             stockPrice |-> p.book[k].stockPrice,
             callOpenInterest |-> p.book[k].callOpenInterest,
             putOpenInterest |-> p.book[k].putOpenInterest,
             gamma |-> p.book[k].gamma]]
    ELSE << >>

has_data_for_date(p, trade_date) ==
    p.status = 200 /\ Len(StrikesData(p, trade_date)) > 0

(* The two raises of fetch_eod_strikes *)
StrikesAuthFailure(status) == status = 401

StrikesHttpError(status) == status >= 400

(* res[expd] = (rf, y) for each row in order, rows without expirDate skipped *)
RECURSIVE MoniesRows(_, _)
MoniesRows(res, rs) ==
    IF rs = << >> THEN res
    ELSE LET row == Head(rs)
             add == IF TruthyStr(row.expirDate)
                    THEN [e \in (DOMAIN res) \cup {row.expirDate[1]} |->
                            IF e = row.expirDate[1]
                            THEN <<row.riskFreeRate, row.yieldRate>>
                            ELSE res[e]]
                    ELSE res
         IN MoniesRows(add, Tail(rs))

_fetch_monies_map(hist, live) ==
    LET a == IF hist.status >= 400 THEN EmptyMap
             ELSE MoniesRows(EmptyMap, hist.data)
    IN IF DOMAIN a # {} THEN a
       ELSE IF live.status >= 400 THEN EmptyMap
       ELSE MoniesRows(EmptyMap, live.data)

_fetch_rf30(hist, live) ==
    IF hist.status < 400 /\ hist.data # << >> THEN Head(hist.data)
    ELSE IF live.status < 400 /\ live.data # << >> THEN Head(live.data)
    ELSE Null

(* `_fetch_rf30(SPX) or _fetch_rf30(SPY)` *)
FallbackRate(a, b) == IF TruthyNum(a) THEN a ELSE b

(* the filter of line 180 *)
DteFilter(recs) ==
    SelectSeq(recs, LAMBDA d : d.dte = Null \/ d.dte[1] <= DTE_MAX)

(* the early return of line 181 left out *)
EmptyResult_never(recs) == FALSE

EmptyResult(recs) == recs = << >>

----------------------------------------------------------------------------
(* Row builder *)

(* the proxy consulted only when the primary yield is None, not when it is 0 *)
ResolveCarry_noneonly(expd, mspx, mspy, fallback) ==
    LET in1 == TruthyStr(expd) /\ expd[1] \in DOMAIN mspx
        sr1 == IF in1 THEN mspx[expd[1]][1] ELSE Null
        dy1 == IF in1 THEN mspx[expd[1]][2] ELSE Null
        in2 == dy1 = Null /\ TruthyStr(expd) /\ expd[1] \in DOMAIN mspy
        sr2 == IF in2 /\ sr1 = Null THEN mspy[expd[1]][1] ELSE sr1
        dy2 == IF in2 /\ ~NoneOrZero(mspy[expd[1]][2])
               THEN mspy[expd[1]][2] ELSE dy1
        sr3 == IF sr2 = Null THEN fallback ELSE sr2
        dy3 == IF dy2 = Null THEN Some(0) ELSE dy2
    IN <<sr3, dy3>>

(* Carry-rate reconciliation, lines 188-197 *)
ResolveCarry(expd, mspx, mspy, fallback) ==
    LET in1 == TruthyStr(expd) /\ expd[1] \in DOMAIN mspx
        sr1 == IF in1 THEN mspx[expd[1]][1] ELSE Null
        dy1 == IF in1 THEN mspx[expd[1]][2] ELSE Null
        in2 == NoneOrZero(dy1) /\ TruthyStr(expd) /\ expd[1] \in DOMAIN mspy
        sr2 == IF in2 /\ sr1 = Null THEN mspy[expd[1]][1] ELSE sr1
        dy2 == IF in2 /\ ~NoneOrZero(mspy[expd[1]][2])
               THEN mspy[expd[1]][2] ELSE dy1
        sr3 == IF sr2 = Null THEN fallback ELSE sr2
        dy3 == IF dy2 = Null THEN Some(0) ELSE dy2
    IN <<sr3, dy3>>

Or0(x) == IF x = Null THEN 0 ELSE x[1]

compute_gex(S, gamma, oi) ==
    Some(Or0(gamma) * Or0(S) * Or0(S) * Or0(oi) * CONTRACT_MULTIPLIER)

(* The outcome of a computation that raised: a pair naming the exception,
   so that it differs in length from None and from every value. *)
Raised(exc) == <<"raise", exc>>

(* a JSON text that is not a number *)
Text(s) == <<"text", s>>

IsNumber(x) == Len(x) = 1

(* math.exp(x) raises OverflowError for x > log(max double): the least
   (short_rate - div_yield) * (dte + 1), in 1/1000, with
   x = expo / 252000 above 709.782712893384 *)
ExpOverflowFrom == 178865244

(* The arithmetic of lines 122-123: int(dte), then float(strike), then
   float(short_rate), float(div_yield) and exp(). int() and float() raise
   TypeError on None and float() raises ValueError on a text that is not a
   number; exp() raises OverflowError. *)
DiscountArith(strike, dte, short_rate, div_yield) ==
    IF strike = Null \/ dte = Null \/ short_rate = Null \/ div_yield = Null
    THEN Raised("TypeError")
    ELSE IF ~IsNumber(strike)
    THEN Raised("ValueError")
    ELSE LET expo == (short_rate[1] - div_yield[1]) * (dte[1] + 1)
         IN IF expo >= ExpOverflowFrom
            THEN Raised("OverflowError")
            ELSE Some([strike |-> strike[1], expo |-> expo])

compute_discounted_level(strike, dte, short_rate, div_yield) ==
    IF strike = Null \/ dte = Null \/ short_rate = Null \/ div_yield = Null
    THEN Null
    ELSE DiscountArith(strike, dte, short_rate, div_yield)

(* Lines 208-211: DTE recomputed from the stored date when expirDate parses *)
EffectiveDte(d, store) ==
    LET pd == IF d.expirDate = Null THEN Null
              ELSE parse_iso_date(d.expirDate[1])
    IN IF pd # Null THEN Some(pd[1] - store) ELSE d.dte

(* the provider's trade date kept on the row *)
RowTradeDate_source(d, store) == d.tradeDate

RowTradeDate(d, store) == Some(store)

BuildRow(d, store, mspx, mspy, fallback) ==
    LET c == ResolveCarry(d.expirDate, mspx, mspy, fallback)
        eff == EffectiveDte(d, store)
    IN [ticker |-> d.ticker,
        trade_date |-> RowTradeDate(d, store),
        expir_date |-> d.expirDate,
        dte |-> eff,
        strike |-> d.strike,
        stock_price |-> d.stockPrice,
        call_oi |-> d.callOpenInterest,
        put_oi |-> d.putOpenInterest,
        gamma |-> d.gamma,
        gex_call |-> compute_gex(d.stockPrice, d.gamma, d.callOpenInterest),
        gex_put |-> compute_gex(d.stockPrice, d.gamma, d.putOpenInterest),
        short_rate |-> c[1],
        div_yield |-> c[2],
        discounted_level |->
            compute_discounted_level(d.strike, eff, c[1], c[2])]

BuildRows(recs, store, mspx, mspy, fallback) ==
    [k \in 1 .. Len(recs) |-> BuildRow(recs[k], store, mspx, mspy, fallback)]

(* A row whose builder raised *)
RowRaised(r) ==
    r.discounted_level \in {Raised("TypeError"), Raised("ValueError"),
                            Raised("OverflowError")}

----------------------------------------------------------------------------
(* Persistence layer *)

Expected == {"ticker", "trade_date", "expir_date", "dte", "strike",
             "stock_price", "call_oi", "put_oi", "gamma", "gex_call",
             "gex_put", "short_rate", "div_yield", "discounted_level"}

(* db.py 36-41: every expected key present, None where the row lacks it *)
Normalize(r) ==
    [k \in Expected \cup DOMAIN r |-> IF k \in DOMAIN r THEN r[k] ELSE Null]

Key(r) == <<r.ticker, r.trade_date, r.expir_date, r.strike>>

(* INSERT ... ON CONFLICT (ticker, trade_date, expir_date, strike) DO UPDATE:
   the conflicting row keeps its key and its dte *)
Upsert(table, r) ==
    IF \E t \in table : Key(t) = Key(r)
    THEN {IF Key(t) = Key(r)
          THEN [t EXCEPT !.stock_price = r.stock_price,
                         !.call_oi = r.call_oi,
                         !.put_oi = r.put_oi,
                         !.gamma = r.gamma,
                         !.gex_call = r.gex_call,
                         !.gex_put = r.gex_put,
                         !.short_rate = r.short_rate,
                         !.div_yield = r.div_yield,
                         !.discounted_level = r.discounted_level]
          ELSE t : t \in table}
    ELSE table \cup {r}

(* the pre-delete left out *)
DeletePartition_none(table, ticker, date) == table

(* DELETE FROM orats_oi_gamma WHERE ticker = %s AND trade_date = %s *)
DeletePartition(table, ticker, date) ==
    {t \in table : ~(t.ticker = Some(ticker) /\ t.trade_date = Some(date))}

Partition(table, ticker, date) ==
    {t \in table : t.ticker = Some(ticker) /\ t.trade_date = Some(date)}

(* a connection in autocommit mode *)
AfterStatement_autocommit(store, view) == view

(* The connection handed out by the pool is not in autocommit mode: a
   statement changes the transaction's view and leaves the committed table
   as it is. *)
AfterStatement(store, view) == store

(* Leaving `with pool.connection()` on an exception rolls back. *)
OnException(store, view) == store

(* conn.commit() *)
OnCommit(store, view) == view

View == IF tx = Null THEN committed ELSE tx[1]

RowSet(rs) == {Normalize(rs[k]) : k \in 1 .. Len(rs)}

----------------------------------------------------------------------------
(* Inputs of a run *)

Tokens == {"", "tok"}

(* the token check left out *)
TokenMissing_never(t) == FALSE

TokenMissing(t) == t = ""

RecA == [expirDate |-> Some("2024-01-19"), dte |-> Some(14),
         strike |-> Some(4500), stockPrice |-> Some(45),
         callOpenInterest |-> Some(10), putOpenInterest |-> Some(7),
         gamma |-> Some(2)]

RecB == [RecA EXCEPT !.strike = Some(4600), !.gamma = Some(3)]

RecC == [RecA EXCEPT !.expirDate = Some("2025-06-20"), !.dte = Some(500)]

Templates == <<RecA, RecB, RecC>>

(* strictly increasing index sequences of length 1..n over 1..m *)
IncSeqs(n, m) ==
    {s \in UNION {[1 .. k -> 1 .. m] : k \in 1 .. n} :
        \A i \in 1 .. (Len(s) - 1) : s[i] < s[i + 1]}

(* Books with one record per (expiration, strike) *)
Books ==
    {[k \in 1 .. Len(s) |-> Templates[s[k]]] : s \in IncSeqs(MaxRecords, 3)}

Resp(status, rs) == [status |-> status, data |-> rs]

Quote(e, r, y) == [expirDate |-> e, riskFreeRate |-> r, yieldRate |-> y]

(* Primary quote without a yield, proxy quote from the live endpoint *)
CarryA ==
    [monies |->
        [SPX |-> [hist |-> Resp(200, <<Quote(Some("2024-01-19"), Some(50), Null)>>),
                  live |-> Resp(200, << >>)],
         SPY |-> [hist |-> Resp(500, << >>),
                  live |-> Resp(200, <<Quote(Some("2024-01-19"), Some(48), Some(15))>>)]],
     summ |->
        [SPX |-> [hist |-> Resp(200, <<Some(52)>>), live |-> Resp(200, << >>)],
         SPY |-> [hist |-> Resp(200, <<Some(51)>>), live |-> Resp(200, << >>)]]]

(* Every carry endpoint answers with an error *)
CarryB ==
    [monies |->
        [SPX |-> [hist |-> Resp(500, << >>), live |-> Resp(404, << >>)],
         SPY |-> [hist |-> Resp(500, << >>), live |-> Resp(404, << >>)]],
     summ |->
        [SPX |-> [hist |-> Resp(500, << >>), live |-> Resp(404, << >>)],
         SPY |-> [hist |-> Resp(500, << >>), live |-> Resp(404, << >>)]]]

(* A primary quote with a risk-free rate of 20000.0 *)
CarryC ==
    [CarryA EXCEPT
        !.monies.SPX.hist =
            Resp(200, <<Quote(Some("2024-01-19"), Some(20000000), Some(0))>>)]

Provider(status, dataDays, book, carry) ==
    [status |-> status, dataDays |-> dataDays, book |-> book,
     monies |-> carry.monies, summ |-> carry.summ]

RecentDays == (FirstDay - MaxLookback) .. FirstDay

RunProviders ==
    {Provider(s, RecentDays, <<RecA>>, CarryA) : s \in {401, 500}}
    \cup {Provider(200, {}, <<RecA>>, CarryA)}
    \cup {Provider(200, RecentDays, <<RecA>>, CarryC)}
    \cup {Provider(200, RecentDays, b, c) : b \in Books, c \in {CarryA, CarryB}}

RunArgs ==
    [store_date : {Null, Some(LastDay)}, api_date : {Null, Some(FirstDay - 1)}]

----------------------------------------------------------------------------
(* The run *)

Exit(code, how) ==
    /\ pc' = "exit"
    /\ exit_code' = Some(code)
    /\ outcome' = how

StartOfRun(P, A, L) ==
    /\ pc = "start"
    /\ outcome = "running"
    /\ exit_code = Null
    /\ token \in Tokens
    /\ args \in A
    /\ la_today = Null
    /\ max_lookback \in L
    /\ provider \in P
    /\ store_trade_date = Null
    /\ api_trade_date = Null
    /\ day = Null
    /\ iter = 0
    /\ nprobe = 0
    /\ m_spx = EmptyMap
    /\ m_spy = EmptyMap
    /\ rf30 = Null
    /\ data = << >>
    /\ rows = << >>
    /\ ins = 0
    /\ tx = Null
    /\ issued = << >>

Init ==
    /\ StartOfRun(RunProviders, RunArgs, {MaxLookback})
    /\ committed = {}
    /\ dbAtStart = {}
    /\ prev = Null
    /\ runs = 1

(* lines 139-142 *)
ParseToken ==
    /\ pc = "start"
    /\ IF TokenMissing(token)
       THEN Exit(2, "no_token")
       ELSE pc' = "store" /\ UNCHANGED <<exit_code, outcome>>
    /\ UNCHANGED <<token, args, la_today, max_lookback, provider,
                   store_trade_date, api_trade_date, day, iter, nprobe,
                   m_spx, m_spy, rf30, data, rows, ins, tx, committed,
                   issued, dbAtStart, prev, runs>>

(* lines 144-149 *)
DecideStoreDate ==
    /\ pc = "store"
    /\ IF args.store_date # Null
       THEN /\ store_trade_date' = args.store_date
            /\ UNCHANGED la_today
       ELSE \E t \in Days :
            /\ la_today' = Some(t)
            /\ store_trade_date' = Some(IF _is_bday(t) THEN t ELSE _next_bday(t))
    /\ pc' = "api"
    /\ UNCHANGED <<outcome, exit_code, token, args, max_lookback, provider,
                   api_trade_date, day, iter, nprobe, m_spx, m_spy, rf30,
                   data, rows, ins, tx, committed, issued, dbAtStart, prev,
                   runs>>

(* the search started on the stored date itself *)
SearchStart_off(start_date) == start_date

(* line 101 *)
SearchStart(start_date) == start_date - 1

(* lines 153-156, up to the entry of the search loop *)
DecideApiDate ==
    /\ pc = "api"
    /\ IF args.api_date # Null
       THEN /\ api_trade_date' = args.api_date
            /\ pc' = "monies_spx"
            /\ UNCHANGED <<day, iter>>
       ELSE /\ day' = Some(SearchStart(store_trade_date[1]))
            /\ iter' = 0
            /\ pc' = "search"
            /\ UNCHANGED api_trade_date
    /\ UNCHANGED <<outcome, exit_code, token, args, la_today, max_lookback,
                   provider, store_trade_date, nprobe, m_spx, m_spy, rf30,
                   data, rows, ins, tx, committed, issued, dbAtStart, prev,
                   runs>>

(* one iteration of the loop of lines 102-105 *)
Probe ==
    /\ pc = "search"
    /\ iter < max_lookback
    /\ nprobe' = IF _is_bday(day[1]) THEN nprobe + 1 ELSE nprobe
    /\ IF _is_bday(day[1]) /\ has_data_for_date(provider, day[1])
       THEN /\ api_trade_date' = day
            /\ pc' = "monies_spx"
            /\ UNCHANGED <<day, iter>>
       ELSE /\ day' = Some(day[1] - 1)
            /\ iter' = iter + 1
            /\ UNCHANGED <<pc, api_trade_date>>
    /\ UNCHANGED <<outcome, exit_code, token, args, la_today, max_lookback,
                   provider, store_trade_date, m_spx, m_spy, rf30, data, rows,
                   ins, tx, committed, issued, dbAtStart, prev, runs>>

(* line 106 and lines 157-159 *)
SearchExhausted ==
    /\ pc = "search"
    /\ iter >= max_lookback
    /\ Exit(3, "no_source_date")
    /\ UNCHANGED <<token, args, la_today, max_lookback, provider,
                   store_trade_date, api_trade_date, day, iter, nprobe,
                   m_spx, m_spy, rf30, data, rows, ins, tx, committed,
                   issued, dbAtStart, prev, runs>>

(* line 168 *)
FetchMoniesSpx ==
    /\ pc = "monies_spx"
    /\ m_spx' = _fetch_monies_map(provider.monies.SPX.hist,
                                  provider.monies.SPX.live)
    /\ pc' = "monies_spy"
    /\ UNCHANGED <<outcome, exit_code, token, args, la_today, max_lookback,
                   provider, store_trade_date, api_trade_date, day, iter,
                   nprobe, m_spy, rf30, data, rows, ins, tx, committed,
                   issued, dbAtStart, prev, runs>>

(* line 169 *)
FetchMoniesSpy ==
    /\ pc = "monies_spy"
    /\ m_spy' = _fetch_monies_map(provider.monies.SPY.hist,
                                  provider.monies.SPY.live)
    /\ pc' = "rf30"
    /\ UNCHANGED <<outcome, exit_code, token, args, la_today, max_lookback,
                   provider, store_trade_date, api_trade_date, day, iter,
                   nprobe, m_spx, rf30, data, rows, ins, tx, committed,
                   issued, dbAtStart, prev, runs>>

(* line 175 *)
FetchRf30 ==
    /\ pc = "rf30"
    /\ rf30' = FallbackRate(
                 _fetch_rf30(provider.summ.SPX.hist, provider.summ.SPX.live),
                 _fetch_rf30(provider.summ.SPY.hist, provider.summ.SPY.live))
    /\ pc' = "strikes"
    /\ UNCHANGED <<outcome, exit_code, token, args, la_today, max_lookback,
                   provider, store_trade_date, api_trade_date, day, iter,
                   nprobe, m_spx, m_spy, data, rows, ins, tx, committed,
                   issued, dbAtStart, prev, runs>>

(* lines 178-183 *)
FetchStrikes ==
    /\ pc = "strikes"
    /\ nprobe' = nprobe + 1
    /\ IF StrikesAuthFailure(provider.status)
       THEN Exit(1, "auth_failure") /\ UNCHANGED data
       ELSE IF StrikesHttpError(provider.status)
       THEN Exit(1, "fetch_failure") /\ UNCHANGED data
       ELSE LET kept == DteFilter(StrikesData(provider, api_trade_date[1]))
            IN /\ data' = kept
               /\ IF EmptyResult(kept)
                  THEN Exit(0, "empty")
                  ELSE pc' = "build" /\ UNCHANGED <<exit_code, outcome>>
    /\ UNCHANGED <<token, args, la_today, max_lookback, provider,
                   store_trade_date, api_trade_date, day, iter, m_spx, m_spy,
                   rf30, rows, ins, tx, committed, issued, dbAtStart, prev,
                   runs>>

(* lines 186-230 *)
BuildRowsStep ==
    /\ pc = "build"
    /\ LET built == BuildRows(data, store_trade_date[1], m_spx, m_spy, rf30)
       IN /\ rows' = built
          /\ IF \E k \in 1 .. Len(built) : RowRaised(built[k])
             THEN Exit(1, "build_error")
             ELSE pc' = "delete" /\ UNCHANGED <<exit_code, outcome>>
    /\ UNCHANGED <<token, args, la_today, max_lookback, provider,
                   store_trade_date, api_trade_date, day, iter, nprobe, m_spx,
                   m_spy, rf30, data, ins, tx, committed, issued, dbAtStart,
                   prev, runs>>

(* An entry of the statement log: the statement and its key parameters *)
Stmt(op, key, ok) == [op |-> op, key |-> key, ok |-> ok]

(* conn.commit() returned in this run *)
CommitDone ==
    \E k \in 1 .. Len(issued) : issued[k].op = "COMMIT" /\ issued[k].ok

Issued(op) == \E k \in 1 .. Len(issued) : issued[k].op = op

(* A statement or the commit raised: the exception leaves both `with`
   blocks, the pool rolls the connection back, the process dies with 1. *)
Raise(how) ==
    /\ Exit(1, how)
    /\ committed' = OnException(committed, View)
    /\ tx' = Null

(* A statement ran inside the transaction and produced the view v *)
Ran(v) ==
    /\ tx' = Some(v)
    /\ committed' = AfterStatement(committed, v)

(* lines 233-240 *)
DbDelete ==
    /\ pc = "delete"
    /\ \E ok \in BOOLEAN :
        /\ issued' = Append(issued,
                            Stmt("DELETE", <<TICKER, store_trade_date[1]>>, ok))
        /\ IF ok
           THEN /\ Ran(DeletePartition(View, TICKER, store_trade_date[1]))
                /\ pc' = IF rows = << >> THEN "refresh" ELSE "insert"
                /\ UNCHANGED <<exit_code, outcome>>
           ELSE Raise("db_error")
    /\ UNCHANGED <<token, args, la_today, max_lookback, provider,
                   store_trade_date, api_trade_date, day, iter, nprobe, m_spx,
                   m_spy, rf30, data, rows, ins, dbAtStart, prev, runs>>

(* line 243: one row of cur.executemany *)
DbInsert ==
    /\ pc = "insert"
    /\ ins < Len(rows)
    /\ \E ok \in BOOLEAN :
        /\ issued' = Append(issued, Stmt("INSERT", Key(rows[ins + 1]), ok))
        /\ IF ok
           THEN /\ Ran(Upsert(View, Normalize(rows[ins + 1])))
                /\ ins' = ins + 1
                /\ pc' = IF ins + 1 = Len(rows) THEN "refresh" ELSE "insert"
                /\ UNCHANGED <<exit_code, outcome>>
           ELSE Raise("db_error") /\ UNCHANGED ins
    /\ UNCHANGED <<token, args, la_today, max_lookback, provider,
                   store_trade_date, api_trade_date, day, iter, nprobe, m_spx,
                   m_spy, rf30, data, rows, dbAtStart, prev, runs>>

(* lines 245-246 *)
DbRefresh ==
    /\ pc = "refresh"
    /\ \E ok \in BOOLEAN :
        /\ issued' = Append(issued, Stmt("REFRESH", << >>, ok))
        /\ IF ok
           THEN /\ Ran(View)
                /\ pc' = "commit"
                /\ UNCHANGED <<exit_code, outcome>>
           ELSE Raise("refresh_failed")
    /\ UNCHANGED <<token, args, la_today, max_lookback, provider,
                   store_trade_date, api_trade_date, day, iter, nprobe, m_spx,
                   m_spy, rf30, data, rows, ins, dbAtStart, prev, runs>>

(* line 248: conn.commit(); the process goes on to leave the with blocks *)
DbCommit ==
    /\ pc = "commit"
    /\ \E ok \in BOOLEAN :
        /\ issued' = Append(issued, Stmt("COMMIT", << >>, ok))
        /\ IF ok
           THEN /\ committed' = OnCommit(committed, View)
                /\ tx' = Null
                /\ pc' = "finish"
                /\ UNCHANGED <<exit_code, outcome>>
           ELSE Raise("db_error")
    /\ UNCHANGED <<token, args, la_today, max_lookback, provider,
                   store_trade_date, api_trade_date, day, iter, nprobe, m_spx,
                   m_spy, rf30, data, rows, ins, dbAtStart, prev, runs>>

(* lines 248-253: both with blocks are left, the summary is logged and main
   returns *)
Finish ==
    /\ pc = "finish"
    /\ Exit(0, "ok")
    /\ UNCHANGED <<token, args, la_today, max_lookback, provider,
                   store_trade_date, api_trade_date, day, iter, nprobe, m_spx,
                   m_spy, rf30, data, rows, ins, tx, committed, issued,
                   dbAtStart, prev, runs>>

(* The process is killed at any point before main returns; the server
   aborts the open transaction, what was committed stays. *)
Crash ==
    /\ pc \notin {"exit", "crashed"}
    /\ pc' = "crashed"
    /\ outcome' = "crashed"
    /\ tx' = Null
    /\ UNCHANGED <<exit_code, token, args, la_today, max_lookback, provider,
                   store_trade_date, api_trade_date, day, iter, nprobe, m_spx,
                   m_spy, rf30, data, rows, ins, committed, issued, dbAtStart,
                   prev, runs>>

(* The scheduler starts the job again (one run at a time). *)
NewRun ==
    /\ pc \in {"exit", "crashed"}
    /\ runs < MaxRuns
    /\ runs' = runs + 1
    /\ dbAtStart' = committed
    /\ prev' = IF CommitDone
               THEN Some([store |-> store_trade_date[1],
                          api |-> api_trade_date[1],
                          provider |-> provider,
                          part |-> Partition(committed, TICKER,
                                             store_trade_date[1])])
               ELSE Null
    /\ pc' = "start"
    /\ outcome' = "running"
    /\ exit_code' = Null
    /\ token' \in Tokens
    /\ args' \in RunArgs
    /\ la_today' = Null
    /\ provider' \in RunProviders
    /\ store_trade_date' = Null
    /\ api_trade_date' = Null
    /\ day' = Null
    /\ iter' = 0
    /\ nprobe' = 0
    /\ m_spx' = EmptyMap
    /\ m_spy' = EmptyMap
    /\ rf30' = Null
    /\ data' = << >>
    /\ rows' = << >>
    /\ ins' = 0
    /\ tx' = Null
    /\ issued' = << >>
    /\ UNCHANGED <<committed, max_lookback>>

Step ==
    \/ ParseToken
    \/ DecideStoreDate
    \/ DecideApiDate
    \/ Probe
    \/ SearchExhausted
    \/ FetchMoniesSpx
    \/ FetchMoniesSpy
    \/ FetchRf30
    \/ FetchStrikes
    \/ BuildRowsStep
    \/ DbDelete
    \/ DbInsert
    \/ DbRefresh
    \/ DbCommit
    \/ Finish
    \/ Crash

Next == Step \/ NewRun

Spec == Init /\ [][Next]_vars

TypeOK == pc \in {"start", "store", "api", "search", "monies_spx",
                  "monies_spy", "rf30", "strikes", "build", "delete",
                  "insert", "refresh", "commit", "finish", "exit",
                  "crashed"}

----------------------------------------------------------------------------
(* Date resolution on its own: every weekday of the window as stored date,
   every lookback up to the bound, every placement of the provider's data. *)

SearchWindow == (FirstDay - MaxLookback) .. (LastDay - 1)

SearchProviders ==
    {Provider(200, D, b, CarryA) : D \in SUBSET SearchWindow,
                                   b \in {<< >>, <<RecA>>}}
    \cup {Provider(s, SearchWindow, <<RecA>>, CarryA) : s \in {401, 500}}

SearchArgs ==
    [store_date : {Null} \cup {Some(d) : d \in Days},
     api_date : {Null, Some(FirstDay - 1)}]

InitSearch ==
    /\ StartOfRun(SearchProviders, SearchArgs, 1 .. MaxLookback)
    /\ committed = {}
    /\ dbAtStart = {}
    /\ prev = Null
    /\ runs = 1

NextSearch ==
    \/ ParseToken
    \/ DecideStoreDate
    \/ DecideApiDate
    \/ Probe
    \/ SearchExhausted

SpecSearch == InitSearch /\ [][NextSearch]_vars

----------------------------------------------------------------------------
(* Carry fetch and row building on their own: one strike record with every
   combination of present and missing fields, against every combination of
   primary quote, proxy quote and fallback rates. *)

RowRecords ==
    {[RecA EXCEPT !.expirDate = e, !.dte = t, !.strike = k] :
        e \in {Null, Some("2024-01-19"), Some("9999-12-31"), Some("n/a")},
        t \in {Null, Some(14)},
        k \in {Null, Some(4500), Text("n/a")}}

QuoteLists(rates, yields) ==
    {<< >>} \cup {<<Quote(Some("2024-01-19"), r, y)>> : r \in rates, y \in yields}

RowCarries ==
    {[monies |->
        [SPX |-> [hist |-> Resp(200, q1), live |-> Resp(500, << >>)],
         SPY |-> [hist |-> Resp(200, q2), live |-> Resp(500, << >>)]],
      summ |->
        [SPX |-> [hist |-> Resp(200, <<f1>>), live |-> Resp(500, << >>)],
         SPY |-> [hist |-> Resp(200, <<f2>>), live |-> Resp(500, << >>)]]] :
        q1 \in QuoteLists({Null, Some(0), Some(50)}, {Null, Some(0), Some(20)}),
        q2 \in QuoteLists({Null, Some(0), Some(48)}, {Null, Some(0), Some(15)}),
        f1 \in {Null, Some(0), Some(52)},
        f2 \in {Null, Some(51), Some(70)}}

RowProviders ==
    {Provider(200, {FirstDay - 1}, <<d>>, c) : d \in RowRecords, c \in RowCarries}

InitRow ==
    /\ pc = "monies_spx"
    /\ outcome = "running"
    /\ exit_code = Null
    /\ token = "tok"
    /\ args = [store_date |-> Some(FirstDay), api_date |-> Some(FirstDay - 1)]
    /\ la_today = Null
    /\ max_lookback = MaxLookback
    /\ provider \in RowProviders
    /\ store_trade_date = Some(FirstDay)
    /\ api_trade_date = Some(FirstDay - 1)
    /\ day = Null
    /\ iter = 0
    /\ nprobe = 0
    /\ m_spx = EmptyMap
    /\ m_spy = EmptyMap
    /\ rf30 = Null
    /\ data = << >>
    /\ rows = << >>
    /\ ins = 0
    /\ tx = Null
    /\ issued = << >>
    /\ committed = {}
    /\ dbAtStart = {}
    /\ prev = Null
    /\ runs = 1

NextRow ==
    \/ FetchMoniesSpx
    \/ FetchMoniesSpy
    \/ FetchRf30
    \/ FetchStrikes
    \/ BuildRowsStep

SpecRow == InitRow /\ [][NextRow]_vars

----------------------------------------------------------------------------
(* Properties *)

MonFri(d) == Weekday(d) \in 0 .. 4

(* the provider answers a probe for d with at least one strike record *)
ProviderReports(d) ==
    provider.status = 200 /\ d \in provider.dataDays /\ provider.book # << >>

PriorPartition == Partition(dbAtStart, TICKER, store_trade_date[1])

StoredPartition == Partition(committed, TICKER, store_trade_date[1])

SearchFinished ==
    /\ args.api_date = Null
    /\ \/ pc = "monies_spx"
       \/ pc = "exit" /\ outcome = "no_source_date"

(* C1: without a source-date override, the source date found is the most
   recent Monday-Friday day strictly before the stored date, inside the
   lookback window, for which the provider reports data, and the search
   finds none exactly when no business day of the window has data. *)
C1_MostRecentBusinessDayWithData ==
    SearchFinished =>
        LET s == store_trade_date[1]
            window == (s - max_lookback) .. (s - 1)
        IN IF api_trade_date = Null
           THEN \A d \in window : MonFri(d) => ~ProviderReports(d)
           ELSE LET d == api_trade_date[1]
                IN /\ d < s
                   /\ d \in window
                   /\ MonFri(d)
                   /\ ProviderReports(d)
                   /\ \A e \in (d + 1) .. (s - 1) :
                        MonFri(e) => ~ProviderReports(e)

(* a source date found after a business day without data and a weekend
   were walked over *)
C1_Witness ==
    /\ SearchFinished
    /\ api_trade_date # Null
    /\ nprobe >= 2
    /\ \E e \in (api_trade_date[1] + 1) .. (store_trade_date[1] - 1) : ~MonFri(e)

(* C2: a missing token, an exhausted source-date search and a 401 or other
   4xx/5xx answer to the strikes fetch end the run with no SQL statement
   sent, the table as it was when the run started. *)
C2_FatalBeforeAnyWrite ==
    /\ (\/ token = ""
        \/ provider.status >= 400
        \/ args.api_date = Null /\ provider.dataDays = {})
       => /\ issued = << >>
          /\ tx = Null
          /\ committed = dbAtStart
          /\ (pc = "exit" => exit_code \in {Some(1), Some(2), Some(3)})
    /\ (pc = "exit" /\ outcome \in {"no_token", "no_source_date",
                                    "auth_failure", "fetch_failure"})
       => /\ issued = << >>
          /\ committed = dbAtStart

(* a strikes fetch failed over a partition an earlier run had filled *)
C2_Witness ==
    /\ pc = "exit"
    /\ outcome \in {"auth_failure", "fetch_failure"}
    /\ PriorPartition # {}
    /\ StoredPartition = PriorPartition

(* C3 (as claimed): after a run whose delete and insert succeeded and whose
   view refresh failed, the partition holds the rows of that run. *)
C3_RefreshFailureKeepsWrite ==
    outcome = "refresh_failed" => StoredPartition = RowSet(rows)

(* C4: the committed partition of the stored date is always either the
   partition the run found or the complete new row set, and as long as
   conn.commit() has not returned (crash or error included) the table is the
   one the run found. *)
C4_AtomicReplace ==
    /\ ~CommitDone => committed = dbAtStart
    /\ store_trade_date # Null =>
         StoredPartition \in {PriorPartition, RowSet(rows)}

(* a crash in the middle of the inserts, over a non-empty prior partition *)
C4_Witness ==
    /\ pc = "crashed"
    /\ Issued("INSERT")
    /\ ins < Len(rows)
    /\ PriorPartition # {}
    /\ PriorPartition # RowSet(rows)
    /\ StoredPartition = PriorPartition

SameInputsAsPrev ==
    /\ prev # Null
    /\ prev[1].store = store_trade_date[1]
    /\ prev[1].api = api_trade_date[1]
    /\ prev[1].provider = provider

(* C5: after a run that committed (also one killed right after the commit),
   the partition of the stored date is exactly the set of rows that run built, and a run with the inputs of the
   run before it leaves the partition that run left. *)
C5_FullReplaceIdempotent ==
    CommitDone =>
        /\ StoredPartition = RowSet(rows)
        /\ SameInputsAsPrev => StoredPartition = prev[1].part

(* a committed run that had to remove a row of an earlier run *)
C5_Witness ==
    /\ outcome = "ok"
    /\ PriorPartition \ RowSet(rows) # {}
    /\ RowSet(rows) # {}

(* the same run twice in a row *)
C5_WitnessRerun ==
    /\ outcome = "ok"
    /\ SameInputsAsPrev
    /\ StoredPartition # {}

NoRecordKept ==
    LET recs == StrikesData(provider, api_trade_date[1])
    IN \A k \in 1 .. Len(recs) : recs[k].dte # Null /\ recs[k].dte[1] > DTE_MAX

(* C6: when no strike record is left after the DTE filter the run exits 0
   with no DELETE, INSERT or REFRESH sent and the table unchanged. *)
C6_EmptyResultNoWrite ==
    (api_trade_date # Null /\ provider.status = 200 /\ NoRecordKept) =>
        /\ issued = << >>
        /\ committed = dbAtStart
        /\ pc \notin {"build", "delete", "insert", "refresh", "commit",
                     "finish"}
        /\ pc = "exit" => exit_code = Some(0) /\ outcome = "empty"

(* records were fetched, all were filtered out, a prior partition exists *)
C6_Witness ==
    /\ pc = "exit"
    /\ outcome = "empty"
    /\ Len(StrikesData(provider, api_trade_date[1])) > 0
    /\ PriorPartition # {}
    /\ StoredPartition = PriorPartition

(* C8 (as claimed): a 401 answer from the strikes endpoint ends the run at
   once as an authentication failure: no further request follows it and the
   run does not end as "no source date found". *)
C8_Unauthorized401IsFatal ==
    (provider.status = 401 /\ nprobe >= 1) =>
        /\ nprobe = 1
        /\ pc = "exit"
        /\ outcome = "auth_failure"

(* C10: every row built carries the stored date as trade_date, and that is
   the date of the partition the DELETE names. *)
C10_RowsCarryStoredDate ==
    \A k \in 1 .. Len(rows) :
        /\ rows[k].trade_date = store_trade_date
        /\ \A j \in 1 .. Len(issued) :
             issued[j].op = "DELETE" =>
                issued[j].key = <<TICKER, rows[k].trade_date[1]>>

(* rows built from records of another trade date, under an overridden stored
   date, after the DELETE was sent *)
C10_Witness ==
    /\ rows # << >>
    /\ Issued("DELETE")
    /\ args.store_date # Null
    /\ \A k \in 1 .. Len(data) : data[k].tradeDate # store_trade_date

NonZero(y) == y # Null /\ y # Some(0)

(* the quote of a map for the record's expiration, <<Null, Null>> if none *)
QuoteFor(m, e) ==
    IF e # Null /\ e[1] \in DOMAIN m THEN m[e[1]] ELSE <<Null, Null>>

HasQuote(m, e) == e # Null /\ e[1] \in DOMAIN m

(* C7: the yield of a row is the primary quote's yield if present and
   non-zero, else the proxy quote's yield if present and non-zero, else 0,
   never null; the rate is the first non-null of primary rate, proxy rate
   (when the proxy tier is consulted) and fallback rate; primary yield
   missing, proxy yield 0.015 and fallback 0.05 resolve to (0.05, 0.015). *)
C7_CarryPrecedence ==
    /\ \A k \in 1 .. Len(rows) :
        LET e == data[k].expirDate
            p == QuoteFor(m_spx, e)
            x == QuoteFor(m_spy, e)
            consulted == ~NonZero(p[2]) /\ HasQuote(m_spy, e)
            yield == IF NonZero(p[2]) THEN p[2]
                     ELSE IF NonZero(x[2]) THEN x[2]
                     ELSE Some(0)
            rate == IF p[1] # Null THEN p[1]
                    ELSE IF consulted /\ x[1] # Null THEN x[1]
                    ELSE rf30
        IN /\ rows[k].div_yield # Null
           /\ rows[k].div_yield = yield
           /\ rows[k].short_rate = rate
    /\ ResolveCarry(Some("2024-01-19"), EmptyMap,
                    [e \in {"2024-01-19"} |-> <<Null, Some(15)>>],
                    Some(50)) = <<Some(50), Some(15)>>

(* a row whose yield came from the proxy and whose rate came from the
   fallback *)
C7_Witness ==
    /\ rows # << >>
    /\ ~NonZero(QuoteFor(m_spx, data[1].expirDate)[2])
    /\ HasQuote(m_spy, data[1].expirDate)
    /\ QuoteFor(m_spx, data[1].expirDate)[1] = Null
    /\ QuoteFor(m_spy, data[1].expirDate)[1] = Null
    /\ rf30 # Null
    /\ rows[1].short_rate = rf30
    /\ rows[1].div_yield = Some(15)

(* C9 (as claimed): the discounted level of a row is null exactly when its
   strike, its effective DTE, its short rate or its dividend yield is null,
   and building the row never raises. *)
C9_DiscountNullIffInputNull ==
    /\ outcome # "build_error"
    /\ \A k \in 1 .. Len(rows) :
        /\ ~RowRaised(rows[k])
        /\ rows[k].discounted_level = Null
             <=> \/ rows[k].strike = Null
                 \/ rows[k].dte = Null
                 \/ rows[k].short_rate = Null
                 \/ rows[k].div_yield = Null

====
